---- MODULE Spec2Model ----
(***************************************************************************)
(* Brick editor: spatial placement validation (src/utils/physics.ts,       *)
(* getAABB / checkAABBCollision / checkCollision / snapToGrid), the App    *)
(* edit history (history, historyIndex and its handlers) and the Scene     *)
(* pointer handlers that plan and confirm a placement.                     *)
(*                                                                         *)
(* Numbers.  Coordinates are JavaScript numbers; the model keeps them as   *)
(* integers in units of 1/2000 stud, so that one stud is 2000, the half    *)
(* stud of getAABB is 1000 and the EPSILON 0.001 of checkAABBCollision is  *)
(* 2.  Brick dimensions stay in studs, as in the catalog.                  *)
(*                                                                         *)
(* Identifiers.  Brick ids are opaque strings made by crypto.randomUUID(); *)
(* the model uses positive integers, and 0 for null / the empty string     *)
(* (both falsy in the source's `if (selectedBrickId)` and `b.id &&`).      *)
(***************************************************************************)
EXTENDS Integers, Sequences, FiniteSets, TLC

\* ------------------------------------------------------------- bounds
\* Number of objects the session may allocate after the initial array: one
\* snapshot array per commit or accepted import, one library entry per save.
MaxCommits == 2
\* The same, for the sessions of SpecHistory.
MaxHistoryCommits == 4
\* The same, for the sessions of SpecEdit.
MaxEditCommits == 2
\* Longest scene SpecValidator hands to checkCollision.
MaxProbeLen == 2

\* ------------------------------------------------------------- numbers
GRID_SIZE == 2000
HALF == 1000
EPSILON == 2
NULL == 0

\* A missing (null / undefined) position or hover position.
NoPos == << >>
\* textureUrl: null
NoTexture == "null"

\* ------------------------------------------------------------- catalog
BRICK_TYPES ==
  << [id |-> "1x1",      width |-> 1, depth |-> 1, height |-> 1, shape |-> "cube"],
     [id |-> "2x1",      width |-> 2, depth |-> 1, height |-> 1, shape |-> "cube"],
     [id |-> "2x2",      width |-> 2, depth |-> 2, height |-> 1, shape |-> "cube"],
     [id |-> "3x1",      width |-> 3, depth |-> 1, height |-> 1, shape |-> "cube"],
     [id |-> "4x1",      width |-> 4, depth |-> 1, height |-> 1, shape |-> "cube"],
     [id |-> "4x2",      width |-> 4, depth |-> 2, height |-> 1, shape |-> "cube"],
     [id |-> "cyl-1x1",  width |-> 1, depth |-> 1, height |-> 1, shape |-> "cylinder"],
     [id |-> "pyr-1x1",  width |-> 1, depth |-> 1, height |-> 1, shape |-> "pyramid"],
     [id |-> "cone-1x1", width |-> 1, depth |-> 1, height |-> 1, shape |-> "cone"] >>

\* BRICK_TYPES.find((t) => t.id === typeId): whether it finds one, and the
\* first one it finds.
HasType(typeId) == \E i \in 1..Len(BRICK_TYPES) : BRICK_TYPES[i].id = typeId

FindType(typeId) ==
  BRICK_TYPES[CHOOSE i \in 1..Len(BRICK_TYPES) :
                /\ BRICK_TYPES[i].id = typeId
                /\ \A j \in 1..(i - 1) : BRICK_TYPES[j].id # typeId]

\* ------------------------------------------------------------- physics
\* rotation % 2 !== 0
IsRotated(rotation) == rotation % 2 # 0

\* getAABB that ignores the rotation.
getAABB_noSwap(position, rotation, type) ==
  LET min == << position[1] - HALF, position[2] - HALF, position[3] - HALF >>
  IN  [min |-> min,
       max |-> << min[1] + type.width * GRID_SIZE,
                  min[2] + type.height * GRID_SIZE,
                  min[3] + type.depth * GRID_SIZE >>]

getAABB(position, rotation, type) ==
  LET dimX == IF IsRotated(rotation) THEN type.depth ELSE type.width
      dimZ == IF IsRotated(rotation) THEN type.width ELSE type.depth
      dimY == type.height
      min  == << position[1] - HALF, position[2] - HALF, position[3] - HALF >>
      max  == << min[1] + dimX * GRID_SIZE,
                 min[2] + dimY * GRID_SIZE,
                 min[3] + dimZ * GRID_SIZE >>
  IN  [min |-> min, max |-> max]

\* checkAABBCollision without the tolerance.
checkAABBCollision_exact(box1, box2) ==
  /\ box1.min[1] < box2.max[1]
  /\ box1.max[1] > box2.min[1]
  /\ box1.min[2] < box2.max[2]
  /\ box1.max[2] > box2.min[2]
  /\ box1.min[3] < box2.max[3]
  /\ box1.max[3] > box2.min[3]

\* checkAABBCollision with the tolerance on the first comparison of each axis
\* only.
checkAABBCollision_oneSided(box1, box2) ==
  /\ box1.min[1] < box2.max[1] - EPSILON
  /\ box1.max[1] > box2.min[1]
  /\ box1.min[2] < box2.max[2] - EPSILON
  /\ box1.max[2] > box2.min[2]
  /\ box1.min[3] < box2.max[3] - EPSILON
  /\ box1.max[3] > box2.min[3]

checkAABBCollision(box1, box2) ==
  /\ box1.min[1] < box2.max[1] - EPSILON
  /\ box1.max[1] > box2.min[1] + EPSILON
  /\ box1.min[2] < box2.max[2] - EPSILON
  /\ box1.max[2] > box2.min[2] + EPSILON
  /\ box1.min[3] < box2.max[3] - EPSILON
  /\ box1.max[3] > box2.min[3] + EPSILON

\* collisionLoop without the `brick.id === candidate.id` skip.
RECURSIVE collisionLoop_noSkip(_, _, _, _)
collisionLoop_noSkip(candidate, candidateBox, existingBricks, i) ==
  IF i > Len(existingBricks) THEN FALSE
  ELSE LET brick == existingBricks[i] IN
       IF ~HasType(brick.typeId)
         THEN collisionLoop_noSkip(candidate, candidateBox, existingBricks, i + 1)
       ELSE IF checkAABBCollision(candidateBox,
                 getAABB(brick.position, brick.rotation, FindType(brick.typeId)))
         THEN TRUE
       ELSE collisionLoop_noSkip(candidate, candidateBox, existingBricks, i + 1)

\* collisionLoop that decides on the first brick it looks at: `return` where
\* the loop has `continue`.
collisionLoop_firstOnly(candidate, candidateBox, existingBricks, i) ==
  IF i > Len(existingBricks) THEN FALSE
  ELSE LET brick == existingBricks[i] IN
       /\ brick.id # candidate.id
       /\ HasType(brick.typeId)
       /\ checkAABBCollision(candidateBox,
            getAABB(brick.position, brick.rotation, FindType(brick.typeId)))

\* The `for (const brick of existingBricks)` loop of checkCollision, from
\* index i on: TRUE as soon as a brick that is not skipped collides.
RECURSIVE collisionLoop(_, _, _, _)
collisionLoop(candidate, candidateBox, existingBricks, i) ==
  IF i > Len(existingBricks) THEN FALSE
  ELSE LET brick == existingBricks[i] IN
       IF brick.id = candidate.id
         THEN collisionLoop(candidate, candidateBox, existingBricks, i + 1)
       ELSE IF ~HasType(brick.typeId)
         THEN collisionLoop(candidate, candidateBox, existingBricks, i + 1)
       ELSE IF checkAABBCollision(candidateBox,
                 getAABB(brick.position, brick.rotation, FindType(brick.typeId)))
         THEN TRUE
       ELSE collisionLoop(candidate, candidateBox, existingBricks, i + 1)

\* belowGround testing the bounding minimum against the floor, with tolerance.
belowGround_box(candidate) == (candidate.position[2] - HALF) < (0 - HALF) - EPSILON

\* The ground test of checkCollision: candidate.position[1] < 0.
belowGround(candidate) == candidate.position[2] < 0

\* candidate: [position, rotation, typeId, id]; id = NULL when not given.
\* TRUE means blocked.
\* (checkCollision_groundFirst: the ground test put before the catalog lookup.)
checkCollision_groundFirst(candidate, existingBricks) ==
  IF belowGround(candidate) THEN TRUE
  ELSE IF ~HasType(candidate.typeId) THEN FALSE
  ELSE collisionLoop(candidate,
                     getAABB(candidate.position, candidate.rotation,
                             FindType(candidate.typeId)),
                     existingBricks, 1)

checkCollision(candidate, existingBricks) ==
  IF ~HasType(candidate.typeId) THEN FALSE
  ELSE IF belowGround(candidate) THEN TRUE
  ELSE collisionLoop(candidate,
                     getAABB(candidate.position, candidate.rotation,
                             FindType(candidate.typeId)),
                     existingBricks, 1)

\* What checkCollision decides about the candidate and one instance: the
\* catalog lookup of the candidate, then one turn of the loop on that
\* instance, the ground test left aside.
collidesWith(candidate, brick) ==
  IF ~HasType(candidate.typeId) THEN FALSE
  ELSE collisionLoop(candidate,
                     getAABB(candidate.position, candidate.rotation,
                             FindType(candidate.typeId)),
                     << brick >>, 1)

\* Math.round on the scaled integers: the nearest multiple of one stud,
\* halves rounded towards +infinity.
MathRound(v) == ((v + HALF) \div GRID_SIZE) * GRID_SIZE

MathMax(a, b) == IF a >= b THEN a ELSE b

\* snapToGrid without Math.max(0, ...).
snapToGrid_noClamp(x, y, z) == << MathRound(x), MathRound(y), MathRound(z) >>

snapToGrid(x, y, z) == << MathRound(x), MathMax(0, MathRound(y)), MathRound(z) >>

\* ------------------------------------------------------------- inputs
\* Types the palette buttons offer in the model (the source offers every
\* BRICK_TYPES entry).
PaletteTypes == {"2x1"}
\* handleColorChange(c), c among COLORS.
Colors == {"#ef4444"}
\* handleTextureChange(t.url), t among TEXTURES ("" is the 'None' entry).
TextureUrls == {""}
\* e.point of a pointer move over the ground plane: x and z.
PlaneX == {0, 1200}
PlaneZ == {0}
\* e.face.normal of a pointer move over a placed brick.
Normals == { <<0, 1, 0>>, <<0, -1, 0>> }
\* Offset of e.point from the centre of the struck face, along the face.
Jitters == {0}
\* The id the preview candidate carries.
GHOST == -1

\* ------------------------------------------------------------- state
VARIABLES
  history,          \* App: BrickData[][]
  historyIndex,     \* App: cursor into history, 0-based as in the source
  historyRef,       \* identity of each array held in history (same length)
  selectedBrickId,  \* App: id or NULL
  currentType,      \* App HUD
  currentColor,     \* App HUD
  currentTexture,   \* App HUD
  rotation,         \* App HUD: palette rotation
  isSnapping,       \* App HUD
  savedScenes,      \* App library: sequence of [data, ref]
  hoverPos,         \* SceneContent: preview position or NoPos
  nextUuid,         \* next id crypto.randomUUID() returns
  nextRef,          \* next array identity
  discarded,        \* history variable: identities dropped by a commit
  rt,               \* history variable: commit / undo / redo round trip
  budget,           \* number of arrays and library entries to allocate
  lastAlert,        \* text of the last alert() shown, or NoAlert
  probe             \* the function specifications: one call and its result

vars == << history, historyIndex, historyRef, selectedBrickId, currentType,
           currentColor, currentTexture, rotation, isSnapping, savedScenes,
           hoverPos, nextUuid, nextRef, discarded, rt, budget, lastAlert,
           probe >>

aux == << budget, lastAlert, probe >>
hud == << currentType, currentColor, currentTexture, rotation, isSnapping >>
store == << history, historyIndex, historyRef, nextRef, discarded >>

NoAlert == ""

RtNone == [stage |-> "none", before |-> << >>, after |-> << >>]

\* const bricks = history[historyIndex]
bricks == history[historyIndex + 1]

\* bricks.find(b => b.id === selectedBrickId)
HasSelectedBrick == \E i \in 1..Len(bricks) : bricks[i].id = selectedBrickId

selectedBrick ==
  bricks[CHOOSE i \in 1..Len(bricks) :
           /\ bricks[i].id = selectedBrickId
           /\ \A j \in 1..(i - 1) : bricks[j].id # selectedBrickId]

\* BRICK_TYPES.find((t) => t.id === currentType) || BRICK_TYPES[0]
activeType == IF HasType(currentType) THEN FindType(currentType) ELSE BRICK_TYPES[1]

\* isGhostValid that only asks for a hover position.
isGhostValid_unchecked == hoverPos # NoPos

isGhostValid ==
  IF hoverPos = NoPos THEN FALSE
  ELSE ~checkCollision([position |-> hoverPos, rotation |-> rotation,
                        typeId |-> activeType.id, id |-> GHOST], bricks)

NoProbe == [candidate |-> << >>, scene |-> << >>, done |-> FALSE, blocked |-> FALSE]

\* The state after App and SceneContent are constructed.
Start ==
  /\ history = << << >> >>
  /\ historyIndex = 0
  /\ historyRef = << 0 >>
  /\ selectedBrickId = NULL
  /\ currentType = BRICK_TYPES[1].id
  /\ currentColor = "#ef4444"
  /\ currentTexture = NoTexture
  /\ rotation = 0
  /\ isSnapping = TRUE
  /\ savedScenes = << >>
  /\ hoverPos = NoPos
  /\ nextUuid = 1
  /\ nextRef = 1
  /\ discarded = {}
  /\ rt = RtNone
  /\ lastAlert = NoAlert

Init ==
  /\ Start
  /\ budget = MaxCommits
  /\ probe = NoProbe

\* ------------------------------------------------------------- history
\* slice() that keeps the whole array.
sliceHistory_whole(h) == h

\* slice(0, historyIndex): one entry short.
sliceHistory_short(h) == SubSeq(h, 1, historyIndex)

\* history.slice(0, historyIndex + 1)
sliceHistory(h) == SubSeq(h, 1, historyIndex + 1)

pushToHistory(newBricks) ==
  LET newHistory == Append(sliceHistory(history), newBricks) IN
  /\ nextRef + Len(savedScenes) <= budget
  /\ history' = newHistory
  /\ historyIndex' = Len(newHistory) - 1
  /\ historyRef' = Append(sliceHistory(historyRef), nextRef)
  /\ nextRef' = nextRef + 1
  /\ discarded' = discarded \cup
                    { historyRef[i] : i \in (historyIndex + 2)..Len(historyRef) }
  /\ rt' = [stage |-> "committed", before |-> bricks, after |-> newBricks]

\* handleUndo guarded by historyIndex >= 0.
handleUndo_offByOne ==
  /\ IF historyIndex >= 0
       THEN /\ historyIndex' = historyIndex - 1
            /\ selectedBrickId' = NULL
            /\ rt' = IF rt.stage = "committed"
                       THEN [rt EXCEPT !.stage = "undone"] ELSE RtNone
       ELSE /\ UNCHANGED << historyIndex, selectedBrickId, rt >>
  /\ UNCHANGED << history, historyRef, nextRef, discarded, hud, savedScenes,
                  hoverPos, nextUuid >>
  /\ UNCHANGED aux

\* handleUndo that jumps to the first snapshot.
handleUndo_toStart ==
  /\ IF historyIndex > 0
       THEN /\ historyIndex' = 0
            /\ selectedBrickId' = NULL
            /\ rt' = IF rt.stage = "committed"
                       THEN [rt EXCEPT !.stage = "undone"] ELSE RtNone
       ELSE /\ UNCHANGED << historyIndex, selectedBrickId, rt >>
  /\ UNCHANGED << history, historyRef, nextRef, discarded, hud, savedScenes,
                  hoverPos, nextUuid >>
  /\ UNCHANGED aux

\* handleUndo without setSelectedBrickId(null).
handleUndo_keepSelection ==
  /\ IF historyIndex > 0
       THEN /\ historyIndex' = historyIndex - 1
            /\ rt' = IF rt.stage = "committed"
                       THEN [rt EXCEPT !.stage = "undone"] ELSE RtNone
       ELSE /\ UNCHANGED << historyIndex, rt >>
  /\ UNCHANGED << history, historyRef, nextRef, discarded, selectedBrickId, hud,
                  savedScenes, hoverPos, nextUuid >>
  /\ UNCHANGED aux

handleUndo ==
  /\ IF historyIndex > 0
       THEN /\ historyIndex' = historyIndex - 1
            /\ selectedBrickId' = NULL
            /\ rt' = IF rt.stage = "committed"
                       THEN [rt EXCEPT !.stage = "undone"] ELSE RtNone
       ELSE /\ UNCHANGED << historyIndex, selectedBrickId, rt >>
  /\ UNCHANGED << history, historyRef, nextRef, discarded, hud, savedScenes,
                  hoverPos, nextUuid >>
  /\ UNCHANGED aux

\* handleRedo guarded by historyIndex < history.length.
handleRedo_offByOne ==
  /\ IF historyIndex < Len(history)
       THEN /\ historyIndex' = historyIndex + 1
            /\ selectedBrickId' = NULL
            /\ rt' = IF rt.stage = "undone"
                       THEN [rt EXCEPT !.stage = "redone"] ELSE RtNone
       ELSE /\ UNCHANGED << historyIndex, selectedBrickId, rt >>
  /\ UNCHANGED << history, historyRef, nextRef, discarded, hud, savedScenes,
                  hoverPos, nextUuid >>
  /\ UNCHANGED aux

handleRedo ==
  /\ IF historyIndex < Len(history) - 1
       THEN /\ historyIndex' = historyIndex + 1
            /\ selectedBrickId' = NULL
            /\ rt' = IF rt.stage = "undone"
                       THEN [rt EXCEPT !.stage = "redone"] ELSE RtNone
       ELSE /\ UNCHANGED << historyIndex, selectedBrickId, rt >>
  /\ UNCHANGED << history, historyRef, nextRef, discarded, hud, savedScenes,
                  hoverPos, nextUuid >>
  /\ UNCHANGED aux

handleAddBrick(brick) ==
  /\ pushToHistory(bricks \o << brick >>)

\* bricks.map(b => b.id === updatedBrick.id ? updatedBrick : b)
replaceBrick(bs, updatedBrick) ==
  [i \in 1..Len(bs) |-> IF bs[i].id = updatedBrick.id THEN updatedBrick ELSE bs[i]]

\* The validity test of handleUpdateBrick.
updateIsValid(updatedBrick) ==
  ~checkCollision([position |-> updatedBrick.position,
                   rotation |-> updatedBrick.rotation,
                   typeId   |-> updatedBrick.typeId,
                   id       |-> updatedBrick.id], bricks)

\* handleUpdateBrick that commits without looking at isValid.
handleUpdateBrick_force(updatedBrick) ==
  /\ pushToHistory(replaceBrick(bricks, updatedBrick))

handleUpdateBrick(updatedBrick) ==
  IF updateIsValid(updatedBrick)
    THEN /\ pushToHistory(replaceBrick(bricks, updatedBrick))
    ELSE /\ UNCHANGED << store, rt >>

\* bricks.filter(b => b.id !== selectedBrickId)
RECURSIVE filterOut(_, _)
filterOut(bs, id) ==
  IF bs = << >> THEN << >>
  ELSE IF Head(bs).id # id THEN << Head(bs) >> \o filterOut(Tail(bs), id)
  ELSE filterOut(Tail(bs), id)

handleDeleteBrick ==
  /\ IF selectedBrickId # NULL
       THEN /\ pushToHistory(filterOut(bricks, selectedBrickId))
            /\ selectedBrickId' = NULL
       ELSE /\ UNCHANGED << store, rt, selectedBrickId >>
  /\ UNCHANGED << hud, savedScenes, hoverPos, nextUuid >>
  /\ UNCHANGED aux

handleRotate ==
  /\ IF HasSelectedBrick
       THEN /\ handleUpdateBrick([selectedBrick EXCEPT
                                    !.rotation = (selectedBrick.rotation + 1) % 4])
            /\ UNCHANGED rotation
       ELSE /\ rotation' = (rotation + 1) % 4
            /\ UNCHANGED << store, rt >>
  /\ UNCHANGED << selectedBrickId, currentType, currentColor, currentTexture,
                  isSnapping, savedScenes, hoverPos, nextUuid >>
  /\ UNCHANGED aux

handleColorChange(color) ==
  /\ currentColor' = color
  /\ IF HasSelectedBrick
       THEN handleUpdateBrick([selectedBrick EXCEPT !.color = color])
       ELSE UNCHANGED << store, rt >>
  /\ UNCHANGED << selectedBrickId, currentType, currentTexture, rotation,
                  isSnapping, savedScenes, hoverPos, nextUuid >>
  /\ UNCHANGED aux

handleTextureChange(textureUrl) ==
  LET newVal == IF textureUrl = "" THEN NoTexture ELSE textureUrl IN
  /\ currentTexture' = newVal
  /\ IF HasSelectedBrick
       THEN handleUpdateBrick([selectedBrick EXCEPT !.textureUrl = newVal])
       ELSE UNCHANGED << store, rt >>
  /\ UNCHANGED << selectedBrickId, currentType, currentColor, rotation,
                  isSnapping, savedScenes, hoverPos, nextUuid >>
  /\ UNCHANGED aux

\* ------------------------------------------------------------- HUD
setCurrentType(typeId) ==
  /\ currentType' = typeId
  /\ UNCHANGED << store, rt, selectedBrickId, currentColor,
                  currentTexture, rotation, isSnapping, savedScenes, hoverPos,
                  nextUuid >>
  /\ UNCHANGED aux

\* onClick={() => setIsSnapping(!isSnapping)}
toggleSnapping ==
  /\ isSnapping' = ~isSnapping
  /\ UNCHANGED << store, rt, selectedBrickId, currentType, currentColor,
                  currentTexture, rotation, savedScenes, hoverPos, nextUuid >>
  /\ UNCHANGED aux

\* if (e.key === 'Escape') setSelectedBrickId(null)
pressEscape ==
  /\ selectedBrickId' = NULL
  /\ UNCHANGED << store, rt, hud, savedScenes, hoverPos, nextUuid >>
  /\ UNCHANGED aux

\* ------------------------------------------------------------- planner
\* planFromSurfaceHit without Math.max and without the ground safety check.
planFromSurfaceHit_unclamped(p, n, snapping) ==
  LET targetX == p[1] + n[1] * HALF
      targetY == p[2] + n[2] * HALF
      targetZ == p[3] + n[3] * HALF
  IN  IF snapping THEN snapToGrid(targetX, targetY, targetZ)
      ELSE << targetX, targetY, targetZ >>

\* The candidate position handlePointerMove computes from e.point = p and
\* e.face.normal = n under the snapping policy.
planFromSurfaceHit(p, n, snapping) ==
  LET targetX == p[1] + n[1] * HALF
      targetY == p[2] + n[2] * HALF
      targetZ == p[3] + n[3] * HALF
      finalPos == IF snapping THEN snapToGrid(targetX, targetY, targetZ)
                  ELSE << targetX, MathMax(0, targetY), targetZ >>
  IN  IF finalPos[2] < 0 THEN [finalPos EXCEPT ![2] = 0] ELSE finalPos

\* The candidate position handlePlanePointerMove computes from e.point.
planFromGroundPlane(px, pz, snapping) ==
  IF snapping THEN snapToGrid(px, 0, pz) ELSE << px, 0, pz >>

\* A point of the face of normal n of the first unit cell of a placed brick,
\* off the face centre by jitter j along the face.
facePoint(brick, n, j) ==
  << brick.position[1] + n[1] * HALF + (IF n[1] = 0 THEN j ELSE 0),
     brick.position[2] + n[2] * HALF,
     brick.position[3] + n[3] * HALF + (IF n[1] # 0 THEN j ELSE 0) >>

handlePointerMove(p, n) ==
  /\ hoverPos' = planFromSurfaceHit(p, n, isSnapping)
  /\ UNCHANGED << store, rt, selectedBrickId, hud, savedScenes, nextUuid >>
  /\ UNCHANGED aux

handlePlanePointerMove(px, pz) ==
  /\ hoverPos' = planFromGroundPlane(px, pz, isSnapping)
  /\ UNCHANGED << store, rt, selectedBrickId, hud, savedScenes, nextUuid >>
  /\ UNCHANGED aux

\* ------------------------------------------------------------- clicks
\* newBrick built one stud below the preview position.
newBrick_sunk ==
  [id |-> nextUuid, typeId |-> currentType,
   position |-> [hoverPos EXCEPT ![2] = hoverPos[2] - GRID_SIZE],
   rotation |-> rotation, color |-> currentColor, textureUrl |-> currentTexture]

\* The BrickData both click handlers build.
newBrick ==
  [id |-> nextUuid, typeId |-> currentType, position |-> hoverPos,
   rotation |-> rotation, color |-> currentColor, textureUrl |-> currentTexture]

\* if (hoverPos && isGhostValid) onAddBrick(newBrick)
confirmPreview ==
  IF hoverPos # NoPos /\ isGhostValid
    THEN /\ handleAddBrick(newBrick)
         /\ nextUuid' = nextUuid + 1
    ELSE /\ UNCHANGED << store, rt, nextUuid >>

\* onClick of the ground plane.
handleClick ==
  /\ IF selectedBrickId # NULL
       THEN /\ selectedBrickId' = NULL
            /\ UNCHANGED << store, rt, nextUuid >>
       ELSE /\ confirmPreview
            /\ UNCHANGED selectedBrickId
  /\ UNCHANGED << hud, savedScenes, hoverPos >>
  /\ UNCHANGED aux

\* onClick of a placed brick.
brickClick(brick, shiftKey) ==
  /\ IF shiftKey
       THEN /\ confirmPreview
            /\ UNCHANGED selectedBrickId
       ELSE /\ selectedBrickId' = brick.id
            /\ UNCHANGED << store, rt, nextUuid >>
  /\ UNCHANGED << hud, savedScenes, hoverPos >>
  /\ UNCHANGED aux

\* ------------------------------------------------------------- library
\* handleSaveScene with a non-blank name: a SavedScene holding the current
\* array is put in front of the library.
handleSaveScene ==
  /\ nextRef + Len(savedScenes) <= budget
  /\ savedScenes' = << [data |-> bricks, ref |-> historyRef[historyIndex + 1]] >>
                      \o savedScenes
  /\ lastAlert' = "Scene Saved!"
  /\ UNCHANGED << store, rt, selectedBrickId, hud, hoverPos, nextUuid >>
  /\ UNCHANGED << budget, probe >>

\* handleLoadScene without setHistoryIndex(0).
handleLoadScene_keepIndex(scene) ==
  /\ history' = << scene.data >>
  /\ historyRef' = << scene.ref >>
  /\ selectedBrickId' = NULL
  /\ rt' = RtNone
  /\ UNCHANGED << historyIndex, nextRef, discarded, hud, savedScenes, hoverPos,
                  nextUuid >>
  /\ UNCHANGED aux

\* handleLoadScene, the user confirming.
handleLoadScene(scene) ==
  /\ history' = << scene.data >>
  /\ historyRef' = << scene.ref >>
  /\ historyIndex' = 0
  /\ selectedBrickId' = NULL
  /\ rt' = RtNone
  /\ UNCHANGED << nextRef, discarded, hud, savedScenes, hoverPos, nextUuid >>
  /\ UNCHANGED aux

\* parsed.every(b => b.id && b.typeId && b.position)
looksLikeBricks(items) ==
  \A i \in 1..Len(items) :
    items[i].id # NULL /\ items[i].typeId # "" /\ items[i].position # NoPos

\* importIsValid asking for one well-formed element only.
importIsValid_some(parsed) ==
  /\ parsed.isArray
  /\ \E i \in 1..Len(parsed.items) : looksLikeBricks(<< parsed.items[i] >>)

\* The test reader.onload puts on the parsed file content.
importIsValid(parsed) == parsed.isArray /\ looksLikeBricks(parsed.items)

\* handleImportFile without setHistoryIndex(0).
handleImportFile_keepIndex(parsed) ==
  /\ IF importIsValid(parsed)
       THEN /\ nextRef + Len(savedScenes) <= budget
            /\ history' = << parsed.items >>
            /\ historyRef' = << nextRef >>
            /\ nextRef' = nextRef + 1
            /\ selectedBrickId' = NULL
            /\ rt' = RtNone
            /\ lastAlert' = "Scene loaded from file!"
            /\ UNCHANGED historyIndex
       ELSE /\ lastAlert' = "Failed to load file. Invalid JSON format."
            /\ UNCHANGED << history, historyRef, nextRef, historyIndex,
                            selectedBrickId, rt >>
  /\ UNCHANGED << discarded, hud, savedScenes, hoverPos, nextUuid >>
  /\ UNCHANGED << budget, probe >>

\* reader.onload of handleImportFile; parsed is JSON.parse(content):
\* [isArray, items].  A rejected file only raises an alert.
handleImportFile(parsed) ==
  /\ IF importIsValid(parsed)
       THEN /\ nextRef + Len(savedScenes) <= budget
            /\ history' = << parsed.items >>
            /\ historyRef' = << nextRef >>
            /\ nextRef' = nextRef + 1
            /\ historyIndex' = 0
            /\ selectedBrickId' = NULL
            /\ rt' = RtNone
            /\ lastAlert' = "Scene loaded from file!"
       ELSE /\ lastAlert' = "Failed to load file. Invalid JSON format."
            /\ UNCHANGED << history, historyRef, nextRef, historyIndex,
                            selectedBrickId, rt >>
  /\ UNCHANGED << discarded, hud, savedScenes, hoverPos, nextUuid >>
  /\ UNCHANGED << budget, probe >>

\* File contents the model imports.
ImportBrick(id, typeId, position, rot) ==
  [id |-> id, typeId |-> typeId, position |-> position, rotation |-> rot,
   color |-> "#ef4444", textureUrl |-> NoTexture]

ImportPayloads ==
  { [isArray |-> FALSE, items |-> << >>],
    [isArray |-> TRUE,  items |-> << >>],
    [isArray |-> TRUE,  items |-> << ImportBrick(101, "2x1", <<0, 0, 0>>, 1) >>],
    [isArray |-> TRUE,  items |-> << ImportBrick(101, "1x1", <<0, -GRID_SIZE, 0>>, 0) >>],
    [isArray |-> TRUE,  items |-> << ImportBrick(101, "unknown", <<0, 0, 0>>, 0) >>],
    [isArray |-> TRUE,  items |-> << ImportBrick(101, "2x1", <<0, 0, 0>>, 1),
                                     ImportBrick(102, "1x1", <<GRID_SIZE, 0, 0>>, 0) >>],
    [isArray |-> TRUE,  items |-> << ImportBrick(101, "1x1", <<0, 0, 0>>, 0),
                                     ImportBrick(102, "1x1", <<0, 0, 0>>, 0) >>],
    [isArray |-> TRUE,  items |-> << ImportBrick(GHOST, "1x1", <<0, 0, 0>>, 0) >>],
    [isArray |-> TRUE,  items |-> << ImportBrick(101, "1x1", <<0, 0, 0>>, 0),
                                     ImportBrick(101, "1x1", <<GRID_SIZE, 0, 0>>, 0) >>],
    [isArray |-> TRUE,  items |-> << ImportBrick(103, "1x1", <<0, 0, 0>>, 0),
                                     ImportBrick(NULL, "1x1", <<GRID_SIZE, 0, 0>>, 0) >>],
    [isArray |-> TRUE,  items |-> << ImportBrick(103, "", <<0, 0, 0>>, 0) >>],
    [isArray |-> TRUE,  items |-> << ImportBrick(103, "1x1", NoPos, 0) >>],
    [isArray |-> FALSE, items |-> << ImportBrick(103, "1x1", <<0, 0, 0>>, 0) >>] }

\* ------------------------------------------------------------- sessions
PlanePointer == \E px \in PlaneX, pz \in PlaneZ : handlePlanePointerMove(px, pz)

SurfacePointer ==
  \E i \in 1..Len(bricks), n \in Normals, j \in Jitters :
    handlePointerMove(facePoint(bricks[i], n, j), n)

BrickClicks ==
  \E i \in 1..Len(bricks), shiftKey \in BOOLEAN : brickClick(bricks[i], shiftKey)

ColorChange == \E c \in Colors : handleColorChange(c)

TextureChange == \E t \in TextureUrls : handleTextureChange(t)

TypeChange == \E t \in PaletteTypes : setCurrentType(t)

LoadScene == \E i \in 1..Len(savedScenes) : handleLoadScene(savedScenes[i])

ImportFile == \E parsed \in ImportPayloads : handleImportFile(parsed)

\* An editing session on the ground plane, every HUD control in use.
Next ==
  \/ PlanePointer
  \/ handleClick
  \/ BrickClicks
  \/ handleUndo
  \/ handleRedo
  \/ handleDeleteBrick
  \/ handleRotate
  \/ ColorChange
  \/ TextureChange
  \/ TypeChange
  \/ toggleSnapping
  \/ pressEscape

Spec == Init /\ [][Next]_vars

\* A longer session that leaves the palette alone: placing, selecting,
\* recolouring, deleting, undo and redo.
InitHistory ==
  /\ Start
  /\ budget = MaxHistoryCommits
  /\ probe = NoProbe

NextHistory ==
  \/ PlanePointer
  \/ handleClick
  \/ BrickClicks
  \/ handleUndo
  \/ handleRedo
  \/ handleDeleteBrick
  \/ ColorChange
  \/ pressEscape

SpecHistory == InitHistory /\ [][NextHistory]_vars

\* A session that also saves, loads and imports scenes and builds on the
\* bricks they hold.
NextIO ==
  \/ ImportFile
  \/ handleSaveScene
  \/ LoadScene
  \/ PlanePointer
  \/ SurfacePointer
  \/ handleClick
  \/ BrickClicks
  \/ handleUndo
  \/ handleRedo
  \/ handleDeleteBrick
  \/ ColorChange
  \/ pressEscape

SpecIO == Init /\ [][NextIO]_vars

\* A session that builds on every face of the placed bricks, under both
\* snapping policies.
AxisNormals ==
  { << 1, 0, 0 >>, << -1, 0, 0 >>, << 0, 1, 0 >>, << 0, -1, 0 >>,
    << 0, 0, 1 >>, << 0, 0, -1 >> }

\* Offsets of e.point from the centre of the struck face in these sessions.
FaceJitters == {600}

FacePointer ==
  \E i \in 1..Len(bricks), n \in AxisNormals, j \in FaceJitters :
    handlePointerMove(facePoint(bricks[i], n, j), n)

ShiftClicks == \E i \in 1..Len(bricks) : brickClick(bricks[i], TRUE)

InitEdit ==
  /\ Start
  /\ budget = MaxEditCommits
  /\ probe = NoProbe

NextEdit ==
  \/ PlanePointer
  \/ FacePointer
  \/ toggleSnapping
  \/ handleClick
  \/ ShiftClicks
  \/ handleUndo

SpecEdit == InitEdit /\ [][NextEdit]_vars

\* ------------------------------------------------------------- validator
\* checkCollision on its own: one call on a candidate and a scene drawn from
\* the sets below.
ProbePositions ==
  { << x, y, 0 >> : x \in {0, 1200, GRID_SIZE}, y \in {-1, 0, GRID_SIZE} }

ProbeCandidates ==
  [position : ProbePositions, rotation : {0, 1},
   typeId : {"1x1", "2x1", "unknown"}, id : {NULL, 1, 2}]

ProbeBricks ==
  { ImportBrick(id, typeId, << x, 0, 0 >>, 0) :
      id \in {1, 2}, typeId \in {"2x1", "unknown"}, x \in {0, GRID_SIZE} }

ProbeScenes == UNION { [1..n -> ProbeBricks] : n \in 0..MaxProbeLen }

InitValidator ==
  /\ Start
  /\ budget = 0
  /\ \E c \in ProbeCandidates, sc \in ProbeScenes :
       probe = [candidate |-> c, scene |-> sc, done |-> FALSE, blocked |-> FALSE]

validate ==
  /\ ~probe.done
  /\ probe' = [probe EXCEPT !.done = TRUE,
                            !.blocked = checkCollision(probe.candidate, probe.scene)]
  /\ UNCHANGED << store, rt, selectedBrickId, hud, savedScenes, hoverPos,
                  nextUuid, budget, lastAlert >>

NextValidator == validate

SpecValidator == InitValidator /\ [][NextValidator]_vars

\* ------------------------------------------------------------- geometry
\* getAABB, checkAABBCollision and snapToGrid on their own: one call on
\* arguments drawn from the sets below.
\* Offsets of the second volume from the first, per axis: a stud, a stud less
\* the tolerance, a stud less twice the tolerance, none, and their negatives.
GeoOffsets ==
  { 0, GRID_SIZE, GRID_SIZE - EPSILON, GRID_SIZE - 2 * EPSILON,
    0 - GRID_SIZE, EPSILON - GRID_SIZE, 2 * EPSILON - GRID_SIZE }

GeoPositions == { << x, y, z >> : x \in GeoOffsets, y \in GeoOffsets, z \in GeoOffsets }

\* BrickType records, those of no catalog entry included.
GeoTypes == [width : 1..3, depth : 1..3, height : 1..2]

UnitCube == [width |-> 1, depth |-> 1, height |-> 1]

GeoOverlapProbes ==
  { [fn |-> "checkAABBCollision",
     box1 |-> getAABB(<< 0, 0, 0 >>, 0, t1), box2 |-> getAABB(p, 0, t2),
     done |-> FALSE, out |-> FALSE] :
      p \in GeoPositions, t1 \in {UnitCube}, t2 \in {UnitCube, [UnitCube EXCEPT !.width = 2]} }

GeoVolumeProbes ==
  { [fn |-> "getAABB", position |-> p, rotation |-> r, type |-> t,
     done |-> FALSE, out |-> << >>] :
      p \in { << 0, 0, 0 >>, << 1200, GRID_SIZE, 0 - GRID_SIZE >> },
      r \in 0..3, t \in GeoTypes }

\* Coordinates handed to snapToGrid: integers, halves, and their neighbours.
SnapCoords ==
  { 0 - GRID_SIZE - HALF, 0 - GRID_SIZE, 0 - HALF - 1, 0 - HALF, 0 - 1, 0, 1,
    HALF - 1, HALF, 1200, GRID_SIZE, GRID_SIZE + HALF }

GeoSnapProbes ==
  { [fn |-> "snapToGrid", x |-> x, y |-> y, z |-> z,
     done |-> FALSE, out |-> << >>, again |-> << >>] :
      x \in SnapCoords, y \in SnapCoords, z \in {0 - HALF, 0, 1200} }

\* Two poses handed to checkCollision, each in turn as the candidate and as
\* the only instance of the scene: on, above and below the ground, flush,
\* within the tolerance and overlapping, of known and unknown type, of equal
\* and different ids.
GeoPoses(xs, ys, ids) ==
  [position : { << x, y, 0 >> : x \in xs, y \in ys }, rotation : {0, 1},
   typeId : {"1x1", "2x1", "unknown"}, id : ids]

GeoPairProbes ==
  { [fn |-> "checkCollision", a |-> a, b |-> b, done |-> FALSE,
     out |-> FALSE, back |-> FALSE, pair |-> FALSE, pairBack |-> FALSE] :
      a \in GeoPoses({0}, {0, 0 - GRID_SIZE}, {1}),
      b \in GeoPoses({0, GRID_SIZE - EPSILON, GRID_SIZE, 2 * GRID_SIZE - EPSILON},
                     {0, 0 - GRID_SIZE, GRID_SIZE}, {1, 2}) }

InitGeometry ==
  /\ Start
  /\ budget = 0
  /\ probe \in GeoOverlapProbes \cup GeoVolumeProbes \cup GeoSnapProbes
                 \cup GeoPairProbes

callCheckAABBCollision ==
  /\ probe.fn = "checkAABBCollision"
  /\ ~probe.done
  /\ probe' = [probe EXCEPT !.done = TRUE,
                            !.out = checkAABBCollision(probe.box1, probe.box2)]
  /\ UNCHANGED << store, rt, selectedBrickId, hud, savedScenes, hoverPos,
                  nextUuid, budget, lastAlert >>

callGetAABB ==
  /\ probe.fn = "getAABB"
  /\ ~probe.done
  /\ probe' = [probe EXCEPT !.done = TRUE,
                            !.out = getAABB(probe.position, probe.rotation, probe.type)]
  /\ UNCHANGED << store, rt, selectedBrickId, hud, savedScenes, hoverPos,
                  nextUuid, budget, lastAlert >>

\* snapToGrid, and snapToGrid on what it returned.
callSnapToGrid ==
  /\ probe.fn = "snapToGrid"
  /\ ~probe.done
  /\ LET once == snapToGrid(probe.x, probe.y, probe.z) IN
       probe' = [probe EXCEPT !.done = TRUE,
                              !.out = once,
                              !.again = snapToGrid(once[1], once[2], once[3])]
  /\ UNCHANGED << store, rt, selectedBrickId, hud, savedScenes, hoverPos,
                  nextUuid, budget, lastAlert >>

\* checkCollision on pose a against the scene [b], and on pose b against the
\* scene [a].
callCheckCollisionPair ==
  /\ probe.fn = "checkCollision"
  /\ ~probe.done
  /\ probe' = [probe EXCEPT !.done = TRUE,
                            !.out = checkCollision(probe.a, << probe.b >>),
                            !.back = checkCollision(probe.b, << probe.a >>),
                            !.pair = collidesWith(probe.a, probe.b),
                            !.pairBack = collidesWith(probe.b, probe.a)]
  /\ UNCHANGED << store, rt, selectedBrickId, hud, savedScenes, hoverPos,
                  nextUuid, budget, lastAlert >>

NextGeometry ==
  \/ callCheckAABBCollision
  \/ callGetAABB
  \/ callSnapToGrid
  \/ callCheckCollisionPair

SpecGeometry == InitGeometry /\ [][NextGeometry]_vars

\* ------------------------------------------------------------- properties
\* The bounding volume of a placed brick whose type resolves.
bbox(b) == getAABB(b.position, b.rotation, FindType(b.typeId))

\* No two distinct instances of the scene (of resolvable type) overlap.
NoOverlapScene(bs) ==
  \A i, j \in 1..Len(bs) :
    (i # j /\ HasType(bs[i].typeId) /\ HasType(bs[j].typeId))
      => ~checkAABBCollision(bbox(bs[i]), bbox(bs[j]))

C2_BranchDiscard ==
  /\ \A k \in 1..Len(historyRef) : historyRef[k] \notin discarded
  /\ rt.stage = "committed" => historyIndex = Len(history) - 1

\* A snapshot was discarded, and since then a commit was undone and redone.
C2_Witness == discarded # {} /\ rt.stage = "redone"

\* C3 (SpecHistory): a commit keeps snapshots 0..cursor as they were, appends
\* the new scene after them and leaves the cursor on it, the last index.
C3_CommitPost ==
  [][ nextRef' # nextRef =>
        /\ Len(history') = historyIndex + 2
        /\ \A k \in 1..(historyIndex + 1) : history'[k] = history[k]
        /\ history'[Len(history')] = rt'.after
        /\ historyIndex' = historyIndex + 1
        /\ historyIndex' = Len(history') - 1 ]_vars

\* A commit made below the tail has just replaced the snapshots after it.
C3_Witness == rt.stage = "committed" /\ discarded # {} /\ Len(history) >= 3

\* C4 (SpecIO): the history is never empty and the cursor is an index of it.
C4_CursorValid ==
  /\ Len(history) >= 1
  /\ 0 <= historyIndex
  /\ historyIndex < Len(history)

\* A saved scene was loaded over a history that had grown past it.
C4_Witness ==
  /\ Len(history) = 1
  /\ savedScenes # << >>
  /\ historyRef[1] = savedScenes[1].ref
  /\ nextRef > historyRef[1] + 1

\* C5 (SpecHistory): undo moves the cursor down by one when it is above 0 and
\* changes nothing of the history when it is 0; it never changes snapshots.
C5_Undo ==
  [][ handleUndo =>
        /\ historyIndex > 0 => historyIndex' = historyIndex - 1
        /\ historyIndex = 0 => UNCHANGED << history, historyIndex, historyRef >>
        /\ history' = history ]_vars

\* Undo has brought the cursor to 0, below a longer history.
C5_Witness == rt.stage = "undone" /\ historyIndex = 0 /\ Len(history) > 1

\* C6 (SpecHistory): redo moves the cursor up by one when it is below the
\* tail and changes nothing when it is at the tail; it never changes
\* snapshots.
C6_Redo ==
  [][ handleRedo =>
        /\ historyIndex < Len(history) - 1 => historyIndex' = historyIndex + 1
        /\ historyIndex = Len(history) - 1 =>
             UNCHANGED << history, historyIndex, historyRef >>
        /\ history' = history ]_vars

\* Redo has brought the cursor back to the tail.
C6_Witness ==
  /\ rt.stage = "redone"
  /\ historyIndex = Len(history) - 1
  /\ Len(history) >= 2

\* C7 (SpecHistory): after commit(S) and undo the current scene is the one
\* that was current before the commit; after the following redo it is S.
C7_RoundTrip ==
  /\ rt.stage = "undone" => bricks = rt.before
  /\ rt.stage = "redone" => bricks = rt.after

\* Two placements, the second undone and redone: two instances again.
C7_Witness ==
  /\ rt.stage = "redone"
  /\ Len(rt.before) = 1
  /\ Len(bricks) = 2

\* The candidate's volume overlaps that of no instance of the scene.
OverlapsNone(c, sc) ==
  \A i \in 1..Len(sc) :
    HasType(sc[i].typeId) =>
      ~checkAABBCollision(getAABB(c.position, c.rotation, FindType(c.typeId)),
                          bbox(sc[i]))

\* C8 (SpecValidator): a candidate of resolvable type with position.y < 0 is
\* blocked whatever the scene, however little below 0 it is; one with
\* position.y = 0 that overlaps no instance is valid.
C8_FloorRule ==
  (probe.done /\ HasType(probe.candidate.typeId)) =>
    /\ probe.candidate.position[2] < 0 => probe.blocked
    /\ (probe.candidate.position[2] = 0
          /\ OverlapsNone(probe.candidate, probe.scene)) => ~probe.blocked

\* A candidate 0.0005 below the floor was blocked in the empty scene.
C8_Witness ==
  /\ probe.done
  /\ HasType(probe.candidate.typeId)
  /\ probe.candidate.position[2] = -1
  /\ probe.scene = << >>
  /\ probe.blocked

\* C9 (SpecValidator): a candidate whose typeId is not in the catalog is
\* valid for every scene and position.
C9_UnknownType ==
  (probe.done /\ ~HasType(probe.candidate.typeId)) => ~probe.blocked

\* A candidate of unknown type, below the floor and at the position of an
\* instance, was reported valid.
C9_Witness ==
  /\ probe.done
  /\ ~HasType(probe.candidate.typeId)
  /\ probe.candidate.position[2] < 0
  /\ \E i \in 1..Len(probe.scene) :
       /\ HasType(probe.scene[i].typeId)
       /\ probe.scene[i].position[1] = probe.candidate.position[1]
  /\ ~probe.blocked

\* Candidates C10 validates against the current scene.
C10Candidates ==
  [position : { <<0, 0, 0>>, <<GRID_SIZE, 0, 0>>, <<0, -GRID_SIZE, 0>> },
   rotation : {0, 1}, typeId : {"1x1", "2x1", "unknown"}, id : {NULL}]

\* Validating with excludeId = e gives the verdict of validating, without
\* excludeId, against the scene with the instances of id e removed.
ExcludeIsRemove ==
  \A i \in 1..Len(bricks), c \in C10Candidates :
    checkCollision([c EXCEPT !.id = bricks[i].id], bricks)
      = checkCollision(c, filterOut(bricks, bricks[i].id))

\* C10 as stated (SpecIO): exclude-self equals removal, and in a scene
\* without overlap every instance re-validates at its own pose.
C10_Original ==
  /\ ExcludeIsRemove
  /\ NoOverlapScene(bricks) =>
       \A i \in 1..Len(bricks) : updateIsValid(bricks[i])

\* C10 amended (SpecIO): exclude-self equals removal, and in a scene without
\* overlap every instance whose position.y is not below 0, or whose type
\* does not resolve, re-validates at its own pose.
C10_ExcludeSelf ==
  /\ ExcludeIsRemove
  /\ NoOverlapScene(bricks) =>
       \A i \in 1..Len(bricks) :
         (bricks[i].position[2] >= 0 \/ ~HasType(bricks[i].typeId))
           => updateIsValid(bricks[i])

\* A recolour of a selected brick that touches another was committed.
C10_Witness ==
  /\ rt.stage = "committed"
  /\ Len(rt.before) = 2
  /\ Len(rt.after) = 2
  /\ selectedBrickId # NULL
  /\ NoOverlapScene(bricks)

\* ------------------------------------------------------------- C11 .. C20
\* The tolerance eps of the specification, 0.001 stud.
Eps == EPSILON

\* A.min < B.max - eps and A.max > B.min + eps on axis k.
AxisOverlap(A, B, k) == A.min[k] < B.max[k] - Eps /\ A.max[k] > B.min[k] + Eps

\* C11 (SpecGeometry): overlaps(A, B) is true exactly when the two volumes
\* intersect by more than eps on X, Y and Z at once; unit cubes at (0,0,0)
\* and (1,0,0) do not overlap, unit cubes at the same position do.
C11_Overlaps ==
  (probe.fn = "checkAABBCollision" /\ probe.done) =>
    /\ probe.out = (\A k \in 1..3 : AxisOverlap(probe.box1, probe.box2, k))
    /\ ( /\ probe.box1 = getAABB(<< 0, 0, 0 >>, 0, UnitCube)
         /\ probe.box2 = getAABB(<< GRID_SIZE, 0, 0 >>, 0, UnitCube) ) => ~probe.out
    /\ ( /\ probe.box1 = getAABB(<< 0, 0, 0 >>, 0, UnitCube)
         /\ probe.box2 = getAABB(<< 0, 0, 0 >>, 0, UnitCube) ) => probe.out

\* The overlap test has answered "no" for two unit cubes sharing a face.
C11_Witness ==
  /\ probe.fn = "checkAABBCollision"
  /\ probe.done
  /\ probe.box1 = getAABB(<< 0, 0, 0 >>, 0, UnitCube)
  /\ probe.box2 = getAABB(<< GRID_SIZE, 0, 0 >>, 0, UnitCube)
  /\ ~probe.out

\* (width, depth) exchanged.
Swapped(type) == [type EXCEPT !.width = type.depth, !.depth = type.width]

\* C12 (SpecGeometry): the bounding volume is min = position - (0.5,0.5,0.5),
\* max = min + (effW, height, effD) with (effW, effD) = (depth, width) at an
\* odd rotation and (width, depth) at an even one; a w x d type at an odd
\* rotation has the volume of the d x w type at rotation 0, rotations r and
\* r + 2 give the same volume, and the vertical extent does not depend on
\* the rotation.
C12_BoundingVolume ==
  (probe.fn = "getAABB" /\ probe.done) =>
    LET p    == probe.position
        r    == probe.rotation
        t    == probe.type
        odd  == r \in {1, 3}
        effW == IF odd THEN t.depth ELSE t.width
        effD == IF odd THEN t.width ELSE t.depth
    IN  /\ probe.out.min = << p[1] - HALF, p[2] - HALF, p[3] - HALF >>
        /\ probe.out.max = << probe.out.min[1] + effW * GRID_SIZE,
                              probe.out.min[2] + t.height * GRID_SIZE,
                              probe.out.min[3] + effD * GRID_SIZE >>
        /\ odd => probe.out = getAABB(p, 0, Swapped(t))
        /\ probe.out = getAABB(p, (r + 2) % 4, t)
        /\ \A r2 \in 0..3 :
             /\ getAABB(p, r2, t).min[2] = probe.out.min[2]
             /\ getAABB(p, r2, t).max[2] = probe.out.max[2]

\* The volume of a 2 x 1 type at rotation 1 has been computed.
C12_Witness ==
  /\ probe.fn = "getAABB"
  /\ probe.done
  /\ probe.rotation = 1
  /\ probe.type = [width |-> 2, depth |-> 1, height |-> 1]
  /\ probe.out.max[3] - probe.out.min[3] = 2 * GRID_SIZE

\* r is v rounded to the nearest whole stud, a half rounded up.
IsRound(v, r) == r % GRID_SIZE = 0 /\ r - HALF <= v /\ v < r + HALF

\* C16 (SpecGeometry): snap(x, y, z) = (round(x), max(0, round(y)), round(z)),
\* each axis on its own; snap(snap(p)) = snap(p); a position of integer
\* coordinates with y >= 0 is returned unchanged.
C16_SnapIdempotent ==
  (probe.fn = "snapToGrid" /\ probe.done) =>
    /\ IsRound(probe.x, probe.out[1])
    /\ IsRound(probe.z, probe.out[3])
    /\ \E ry \in {probe.y - HALF + d : d \in 1..GRID_SIZE} :
         /\ IsRound(probe.y, ry)
         /\ probe.out[2] = IF ry >= 0 THEN ry ELSE 0
    /\ probe.again = probe.out
    /\ ( /\ probe.x % GRID_SIZE = 0
         /\ probe.y % GRID_SIZE = 0
         /\ probe.z % GRID_SIZE = 0
         /\ probe.y >= 0 ) => probe.out = << probe.x, probe.y, probe.z >>

\* snapToGrid has clamped a negative height to the ground after rounding.
C16_Witness ==
  /\ probe.fn = "snapToGrid"
  /\ probe.done
  /\ probe.y = 0 - GRID_SIZE - HALF
  /\ probe.x = HALF
  /\ probe.out = << GRID_SIZE, 0, 0 >>
  /\ probe.again = probe.out

\* C13 as stated: every instance of every scene of the history has a
\* bounding volume whose minimum vertical coordinate is >= -eps.
C13_Original ==
  \A k \in 1..Len(history) : \A i \in 1..Len(history[k]) :
    HasType(history[k][i].typeId) => bbox(history[k][i]).min[2] >= 0 - Eps

\* C13 amended (SpecEdit): in every scene reached by validated edits, every
\* instance has position.y >= 0, that is a bounding volume whose minimum
\* vertical coordinate is >= -0.5.
C13_GroundInvariant ==
  \A k \in 1..Len(history) : \A i \in 1..Len(history[k]) :
    /\ HasType(history[k][i].typeId)
    /\ history[k][i].position[2] >= 0
    /\ bbox(history[k][i]).min[2] >= 0 - HALF

\* A brick stands on the ground and another was placed on top of it.
C13_Witness ==
  /\ Len(bricks) = 2
  /\ bbox(bricks[1]).min[2] = 0 - HALF
  /\ bricks[2].position[2] = GRID_SIZE

\* C15 (SpecEdit): every preview position the planner produces, from a hit on
\* a brick face or on the ground plane, snapping or not, has y >= 0, and y = 0
\* for a ground-plane hit; every brick committed by an add has position.y >= 0.
C15_FloorClamp ==
  /\ [](hoverPos # NoPos => hoverPos[2] >= 0)
  /\ [][ /\ PlanePointer => hoverPos'[2] = 0
         /\ FacePointer => hoverPos'[2] >= 0
         /\ nextUuid' # nextUuid =>
              /\ Len(bricks') = Len(bricks) + 1
              /\ bricks'[Len(bricks')].position[2] >= 0 ]_vars

\* Free placement, pointer on the underside of a brick on the ground: the
\* preview was clamped to the ground.
C15_Witness ==
  /\ ~isSnapping
  /\ Len(bricks) >= 1
  /\ hoverPos = << 600, 0, 0 >>

\* Brick b, at its pose, overlaps an instance of the current scene that has
\* another id, or lies below the ground.
PoseRejected(b) ==
  HasType(b.typeId) /\
    \/ b.position[2] < 0
    \/ \E i \in 1..Len(bricks) :
         /\ bricks[i].id # b.id
         /\ HasType(bricks[i].typeId)
         /\ \A k \in 1..3 : AxisOverlap(bbox(b), bbox(bricks[i]), k)

\* C14 (SpecIO): an update of the selected brick whose pose overlaps another
\* instance or has position.y < 0, and a click (on the ground or, with shift,
\* on a brick) while the preview is invalid, leave snapshots and cursor as
\* they were.
C14_RejectUnchanged ==
  [][ /\ (ColorChange /\ HasSelectedBrick /\ PoseRejected(selectedBrick))
           => UNCHANGED << history, historyIndex, historyRef >>
      /\ ((handleClick \/ ShiftClicks) /\ ~isGhostValid)
           => UNCHANGED << history, historyIndex, historyRef >> ]_vars

\* A brick that overlaps another one is selected, and the preview sits on an
\* occupied cell: a recolour and a click are both rejected in this state.
C14_Witness ==
  /\ HasSelectedBrick
  /\ selectedBrick.position[2] >= 0
  /\ PoseRejected(selectedBrick)
  /\ hoverPos # NoPos
  /\ ~isGhostValid

\* The import contract: a sequence whose every element has a non-empty id, a
\* non-empty typeId and a position.
WellFormed(parsed) ==
  /\ parsed.isArray
  /\ \A i \in 1..Len(parsed.items) :
       /\ parsed.items[i].id # NULL
       /\ parsed.items[i].typeId # ""
       /\ parsed.items[i].position # NoPos

\* Elements that only rejected payloads of the model hold.
OnlyInRejected(b) == b.id \in {NULL, 103} \/ b.typeId = "" \/ b.position = NoPos

\* C17 (SpecIO): a payload is installed only if it is well formed; a payload
\* that is not leaves snapshots, cursor and selection unchanged, and none of
\* its elements is ever in the history.
C17_AtomicImport ==
  /\ [](\A k \in 1..Len(history) : \A i \in 1..Len(history[k]) :
          ~OnlyInRejected(history[k][i]))
  /\ [][ \A parsed \in ImportPayloads :
           (handleImportFile(parsed) /\ ~WellFormed(parsed)) =>
             UNCHANGED << history, historyIndex, historyRef, selectedBrickId >> ]_vars

\* A file was rejected while the history held an edit and its undo point.
C17_Witness ==
  /\ lastAlert = "Failed to load file. Invalid JSON format."
  /\ Len(history) = 2
  /\ historyIndex = 1
  /\ Len(bricks) = 1

\* The three operations of the history store, as steps.
IsCommit ==
  /\ Len(history') = historyIndex + 2
  /\ SubSeq(history', 1, historyIndex + 1) = SubSeq(history, 1, historyIndex + 1)
  /\ historyIndex' = Len(history') - 1

IsUndo == history' = history /\ historyIndex > 0 /\ historyIndex' = historyIndex - 1

IsRedo ==
  /\ history' = history
  /\ historyIndex < Len(history) - 1
  /\ historyIndex' = historyIndex + 1

\* The whole history replaced by one snapshot, the cursor on it.
IsReplace == Len(history') = 1 /\ historyIndex' = 0

HistoryChanged == << history, historyIndex >>' # << history, historyIndex >>

\* C18 as stated: every step that changes snapshots or cursor is a commit, an
\* undo or a redo, and snapshots[0] is always the empty scene.
C18_Original ==
  /\ [](history[1] = << >>)
  /\ [][ HistoryChanged => (IsCommit \/ IsUndo \/ IsRedo) ]_vars

\* C18 amended (SpecIO): every step that changes snapshots or cursor is a
\* commit, an undo, a redo, or a scene load or file import, which replaces the
\* history by the one loaded snapshot with the cursor at 0; snapshots[0]
\* changes only in a load or an import.
C18_HistoryFrame ==
  [][ /\ HistoryChanged =>
           \/ IsCommit
           \/ IsUndo
           \/ IsRedo
           \/ (LoadScene \/ ImportFile) /\ IsReplace
      /\ history'[1] # history[1] => (LoadScene \/ ImportFile) ]_vars

\* An imported scene has replaced the history: snapshots[0] is not empty.
C18_Witness ==
  /\ lastAlert = "Scene loaded from file!"
  /\ Len(history) = 1
  /\ historyIndex = 0
  /\ history[1] # << >>
  /\ nextRef >= 3

\* The preview candidate overlaps some instance of the current scene or lies
\* below the ground.
PreviewBlockedByAny ==
  \/ hoverPos[2] < 0
  \/ \E i \in 1..Len(bricks) :
       /\ HasType(bricks[i].typeId)
       /\ \A k \in 1..3 :
            AxisOverlap(getAABB(hoverPos, rotation, activeType), bbox(bricks[i]), k)

\* C19 as stated: a pointer move changes neither snapshots nor cursor, no
\* instance of any scene carries the preview id, and the preview is valid
\* exactly when it overlaps no instance of the scene and is not below ground.
C19_Original ==
  /\ [](\A k \in 1..Len(history) : \A i \in 1..Len(history[k]) :
          history[k][i].id # GHOST)
  /\ [](hoverPos # NoPos => (isGhostValid <=> ~PreviewBlockedByAny))
  /\ [][ (PlanePointer \/ SurfacePointer) =>
           UNCHANGED << history, historyIndex, historyRef >> ]_vars

\* The preview is reported valid on a cell that an instance occupies.
C19_Overlapping ==
  /\ hoverPos # NoPos
  /\ isGhostValid
  /\ PreviewBlockedByAny

\* The scene b is the scene a with one instance appended.
OneAdded(a, b) == Len(b) = Len(a) + 1 /\ SubSeq(b, 1, Len(a)) = a

\* The scene b is the scene a with at most one instance replaced in place.
OneReplaced(a, b) ==
  /\ Len(b) = Len(a)
  /\ Cardinality({ i \in 1..Len(a) : a[i] # b[i] }) <= 1

\* The scene b is the scene a with one instance taken out.
OneRemoved(a, b) ==
  \E i \in 1..Len(a) : b = SubSeq(a, 1, i - 1) \o SubSeq(a, i + 1, Len(a))

\* C20 as stated: every commit appends to the snapshots up to the cursor a
\* scene that differs from the current scene (snapshots[cursor] at the moment
\* of the commit) by exactly the one instance added, replaced or removed.
C20_Original ==
  [][ IsCommit =>
        LET cur  == history[historyIndex + 1]
            next == history'[historyIndex' + 1]
        IN  \/ OneAdded(cur, next)
            \/ OneReplaced(cur, next)
            \/ OneRemoved(cur, next) ]_vars

\* One commit has changed two instances of the scene at once.
C20_TwoChanged ==
  /\ rt.stage = "committed"
  /\ Len(rt.before) = 2
  /\ \/ rt.after = << >>
     \/ /\ Len(rt.after) = 2
        /\ rt.after[1] # rt.before[1]
        /\ rt.after[2] # rt.before[2]

\* ------------------------------------------------------------- C21 .. C23
\* The scenes that hold the instances of sc in another order.
Reorderings(sc) ==
  { [i \in 1..Len(sc) |-> sc[f[i]]] :
      f \in { g \in [1..Len(sc) -> 1..Len(sc)] :
                \A i, j \in 1..Len(sc) : g[i] = g[j] => i = j } }

\* C21 (SpecValidator): the verdict of checkCollision on a candidate and a
\* scene is the verdict on the same candidate and every scene that holds the
\* same instances in another order.
C21_OrderIrrelevant ==
  probe.done =>
    \A sc \in Reorderings(probe.scene) :
      checkCollision(probe.candidate, sc) = probe.blocked

\* A blocked candidate on a scene of two different instances, the first of
\* which does not block it on its own.
C21_Witness ==
  /\ probe.done
  /\ probe.blocked
  /\ Len(probe.scene) = 2
  /\ probe.scene[1] # probe.scene[2]
  /\ ~checkCollision(probe.candidate, << probe.scene[1] >>)
  /\ checkCollision(probe.candidate, << probe.scene[2] >>)

\* The selected id is null or the id of an instance of the current scene.
SelectionInScene ==
  \/ selectedBrickId = NULL
  \/ \E i \in 1..Len(bricks) : bricks[i].id = selectedBrickId

\* The steps that must clear the selection: delete, an undo or a redo that
\* moves the cursor, a scene load and an accepted import.
ClearingStep ==
  \/ handleDeleteBrick
  \/ handleUndo /\ historyIndex' # historyIndex
  \/ handleRedo /\ historyIndex' # historyIndex
  \/ LoadScene
  \/ \E parsed \in ImportPayloads : importIsValid(parsed) /\ handleImportFile(parsed)

\* C22 (SpecIO): the selected id is always null or the id of an instance of
\* the current scene; delete, a cursor-moving undo or redo, scene load and
\* import leave no selection; a ground click while a brick is selected clears
\* the selection and changes neither snapshots nor cursor.
C22_SelectionConsistent ==
  /\ []SelectionInScene
  /\ [][ ClearingStep => selectedBrickId' = NULL ]_vars
  /\ [][ (handleClick /\ selectedBrickId # NULL) =>
           /\ selectedBrickId' = NULL
           /\ UNCHANGED << history, historyIndex, historyRef >> ]_vars

\* A brick is selected and has just been replaced by an update: the selection
\* still names an instance of the committed scene.
C22_Witness ==
  /\ selectedBrickId # NULL
  /\ rt.stage = "committed"
  /\ Len(rt.after) = Len(rt.before)
  /\ rt.after # rt.before
  /\ \E i \in 1..Len(bricks) : bricks[i].id = selectedBrickId

====
